---- MODULE Spec2Model ----
(***************************************************************************)
(* Model of the time kernel of satctrl (src/src/time): Instant, Duration,  *)
(* the leap-second table and the Gregorian <-> Julian-day conversion.      *)
(*                                                                         *)
(* Representation of 64-bit microsecond counts.  TLC's integers are 32-bit *)
(* wide, and the counts of the program are of the order of 10^15, so an    *)
(* i64 microsecond count n is held as the triple <<d, s, u>> with          *)
(*     n = d * 86_400_000_000 + s * 1_000_000 + u,                         *)
(*     0 <= s < 86400,  0 <= u < 1_000_000         (floor normal form).    *)
(* The triple is a numeral, not an abstraction: every i64 value has        *)
(* exactly one triple, and the operators below compute on triples what the *)
(* program computes on i64 (truncating / and %, wrap at 2^63).             *)
(*                                                                         *)
(* Representation of f64 seconds.  A `second` that the program holds as    *)
(* f64 is held as its integer number of microseconds: gregorian() computes *)
(* it as (integer microseconds) as f64 * 1.0e-6, so the integer determines *)
(* the double.                                                             *)
(***************************************************************************)
EXTENDS Integers, Sequences, FiniteSets, TLC

----------------------------------------------------------------------------
(* i64 microsecond counts as triples *)

\* <<d, s, u>> brought to normal form (d, s, u any small integers).
Norm(d, s, u) ==
    LET s1 == s + (u \div 1000000)
        u1 == u % 1000000
        d1 == d + (s1 \div 86400)
        s2 == s1 % 86400
    IN  <<d1, s2, u1>>

\* n microseconds, n seconds, n days (n a small integer).
US(n) == Norm(0, 0, n)
Sec(n) == Norm(0, n, 0)
Days(n) == Norm(n, 0, 0)
\* s seconds and u microseconds: the literal sssssssuuuuuu of the source.
SecUS(s, u) == Norm(0, s, u)

Zero == <<0, 0, 0>>

Plus(a, b) == Norm(a[1] + b[1], a[2] + b[2], a[3] + b[3])
Minus(a, b) == Norm(a[1] - b[1], a[2] - b[2], a[3] - b[3])
Neg(a) == Norm(-a[1], -a[2], -a[3])

Lt(a, b) ==
    \/ a[1] < b[1]
    \/ a[1] = b[1] /\ a[2] < b[2]
    \/ a[1] = b[1] /\ a[2] = b[2] /\ a[3] < b[3]
Le(a, b) == a = b \/ Lt(a, b)
Gt(a, b) == Lt(b, a)
Ge(a, b) == Le(b, a)

\* i64::MAX = 9223372036854775807, i64::MIN = -9223372036854775808, 2^64.
I64_MAX == <<106751991, 14454, 775807>>
I64_MIN == <<-106751992, 71945, 224192>>
TwoTo64 == <<213503982, 28909, 551616>>

InI64(x) == Le(I64_MIN, x) /\ Le(x, I64_MAX)

\* The value an i64 operation leaves when overflow checks are off (two's
\* complement wrap of an exact result that is off by less than 2^64).
Wrap(x) ==
    IF Gt(x, I64_MAX) THEN Minus(x, TwoTo64)
    ELSE IF Lt(x, I64_MIN) THEN Plus(x, TwoTo64)
    ELSE x

\* Rust's integer / and % truncate toward zero; TLA+'s \div and % floor.
TDiv(a, b) ==
    LET q == (IF a < 0 THEN -a ELSE a) \div (IF b < 0 THEN -b ELSE b)
    IN  IF (a < 0) = (b < 0) THEN q ELSE -q
TRem(a, b) == a - b * TDiv(a, b)

\* x % 86_400_000_000 on i64 (sign of the dividend), as a count in (-1 day, 1 day).
RemDay(x) ==
    IF x[1] >= 0 THEN <<0, x[2], x[3]>>
    ELSE IF x[2] = 0 /\ x[3] = 0 THEN Zero
    ELSE <<-1, x[2], x[3]>>

\* v / (k * 1_000_000) on i64 for |v| < 1 day and k whole seconds: a small integer.
DivSecs(v, k) ==
    IF v[1] >= 0 THEN (v[1] * 86400 + v[2]) \div k
    ELSE LET m == Neg(v) IN -((m[1] * 86400 + m[2]) \div k)

\* The small integer a count of less than 2^31 microseconds in magnitude denotes.
AsInt(v) ==
    IF v[1] >= 0 THEN v[2] * 1000000 + v[3]
    ELSE LET m == Neg(v) IN -(m[2] * 1000000 + m[3])

----------------------------------------------------------------------------
(* src/src/time/instant.rs *)

gc == [y |-> 4716, j |-> 1401, m |-> 2, n |-> 12, r |-> 4, p |-> 1461,
       v |-> 3, u |-> 5, s |-> 153, t |-> 2, w |-> 2,
       A |-> 184, B |-> 274277, C |-> -38]

\* (threshold, leap microseconds); 1483228836000000 is written Sec(1483228836).
LEAP_SECOND_TABLE == <<
    <<Sec(1483228836), US(37000000)>>,
    <<Sec(1435708835), US(36000000)>>,
    <<Sec(1341100834), US(35000000)>>,
    <<Sec(1230768033), US(34000000)>>,
    <<Sec(1136073632), US(33000000)>>,
    <<Sec(915148831), US(32000000)>>,
    <<Sec(867715230), US(31000000)>>,
    <<Sec(820454429), US(30000000)>>,
    <<Sec(773020828), US(29000000)>>,
    <<Sec(741484827), US(28000000)>>,
    <<Sec(709948826), US(27000000)>>,
    <<Sec(662688025), US(26000000)>>,
    <<Sec(631152024), US(25000000)>>,
    <<Sec(567993623), US(24000000)>>,
    <<Sec(489024022), US(23000000)>>,
    <<Sec(425865621), US(22000000)>>,
    <<Sec(394329620), US(21000000)>>,
    <<Sec(362793619), US(20000000)>>,
    <<Sec(315532818), US(19000000)>>,
    <<Sec(283996817), US(18000000)>>,
    <<Sec(252460816), US(17000000)>>,
    <<Sec(220924815), US(16000000)>>,
    <<Sec(189302414), US(15000000)>>,
    <<Sec(157766413), US(14000000)>>,
    <<Sec(126230412), US(13000000)>>,
    <<Sec(94694411), US(12000000)>>,
    <<Sec(78796810), US(11000000)>>,
    <<Sec(63072009), US(10000000)>> >>

\* The loop of microleapseconds from entry i on.
RECURSIVE ScanTable(_, _)
ScanTable(raw, i) ==
    IF i > Len(LEAP_SECOND_TABLE) THEN Zero
    ELSE IF Gt(raw, LEAP_SECOND_TABLE[i][1]) THEN LEAP_SECOND_TABLE[i][2]
    ELSE ScanTable(raw, i + 1)

\* (a variant of microleapseconds: before the table, the earliest entry's offset)
microleapseconds_Clamped(raw) ==
    IF ScanTable(raw, 1) = Zero
    THEN LEAP_SECOND_TABLE[Len(LEAP_SECOND_TABLE)][2]
    ELSE ScanTable(raw, 1)

\* (a variant of microleapseconds: the comparison is the other way round)
microleapseconds_Flipped(raw) ==
    IF Lt(raw, LEAP_SECOND_TABLE[1][1]) THEN LEAP_SECOND_TABLE[1][2] ELSE Zero

microleapseconds(raw) == ScanTable(raw, 1)

\* (variants of J2000 and GPS_EPOCH: the leap seconds left out)
J2000_NoLeap == SecUS(946728032, 184000)
GPS_EPOCH_NoLeap == Sec(315964800)

J2000 == SecUS(946728064, 184000)
UNIX_EPOCH == Zero
GPS_EPOCH == Sec(315964819)
\* -3506716800000000 = -40587 days
MJD_EPOCH == Days(-40587)

\* (a variant of as_mjd: the leap seconds are left in the count)
as_mjd_NoLeap(self) == Minus(self, MJD_EPOCH)

\* The i64 numerator of as_mjd: the f64 returned is this count / 86_400_000_000.0.
as_mjd(self) == Minus(Minus(self, MJD_EPOCH), microleapseconds(self))

\* Instant::as_jd, as a count of microseconds: as_mjd() + 2400000.5 days.  The
\* f64 returned is the double nearest to this sum; a sum that is a whole
\* number of half days is returned exactly.
as_jd(self) == Plus(as_mjd(self), Norm(2400000, 43200, 0))

\* The counts as_mjd converts to f64 without rounding: |x| < 2^53 microseconds
\* (104249 whole days); the model applies as_jd and gregorian only to these.
F64Exact(x) == -104249 < x[1] /\ x[1] < 104249

\* self.as_jd().floor() as i64.  as_jd is fl(fl(x / 86_400_000_000.0) + 2400000.5);
\* a double in [2^21, 2^22) is a multiple of 2^-31 day (40.2 microseconds), and
\* ties go to the even neighbour, so a sum within 2^-32 day (20.1 microseconds)
\* below an integer is that integer: from 11:59:59.999980 UTC on, the floor
\* is already the Julian day number that starts at noon.
as_jd_floor(self) ==
    LET x == as_mjd(self)
        roundsUp == x[2] = 43199 /\ x[3] >= 999980
    IN  IF x[2] >= 43200 \/ roundsUp THEN x[1] + 2400001 ELSE x[1] + 2400000

\* (a variant of InLeapWindow: the window opens after the threshold)
InLeapWindow_Strict(raw) ==
    \E i \in 1..Len(LEAP_SECOND_TABLE) :
        /\ Gt(raw, LEAP_SECOND_TABLE[i][1])
        /\ Lt(Minus(raw, LEAP_SECOND_TABLE[i][1]), US(1000000))

\* The condition of the loop at lines 219-230, for some entry.  The thresholds
\* are more than a second apart, so the loop body runs for at most one entry.
InLeapWindow(raw) ==
    \E i \in 1..Len(LEAP_SECOND_TABLE) :
        /\ Ge(raw, LEAP_SECOND_TABLE[i][1])
        /\ Lt(Minus(raw, LEAP_SECOND_TABLE[i][1]), US(1000000))

\* Julian day number to (year, month, day): lines 234-243.
jd_to_date(jd) ==
    LET f == jd + gc.j + TDiv(TDiv(4 * jd + gc.B, 146097) * 3, 4) + gc.C
        e == gc.r * f + gc.v
        g == TDiv(TRem(e, gc.p), gc.r)
        h == gc.u * g + gc.w
        day == TDiv(TRem(h, gc.s), gc.u) + 1
        month == TRem(TDiv(h, gc.s) + gc.m, gc.n) + 1
        year == TDiv(e, gc.p) - gc.y + TDiv(gc.n + gc.m - month, gc.n)
    IN  [year |-> year, month |-> month, day |-> day]

\* Instant::gregorian.  `second` is in microseconds (see the head of the module).
gregorian(self) ==
    LET utc_usec_of_day == RemDay(Minus(self, microleapseconds(self)))
        hour0 == DivSecs(utc_usec_of_day, 3600)
        jdadd0 == IF hour0 < 12 THEN 1 ELSE 0
        rest == Minus(utc_usec_of_day, Norm(0, hour0 * 3600, 0))
        minute0 == DivSecs(rest, 60)
        second0 == AsInt(Minus(rest, Norm(0, minute0 * 60, 0)))
        leap == InLeapWindow(self)
        hour == IF leap THEN 23 ELSE hour0
        minute == IF leap THEN 59 ELSE minute0
        second == IF leap
                  THEN (IF second0 = 0 THEN 60000000 ELSE second0 + 1000000)
                  ELSE second0
        jdadd == IF leap THEN jdadd0 - 1 ELSE jdadd0
        date == jd_to_date(as_jd_floor(self) + jdadd)
    IN  [year |-> date.year, month |-> date.month, day |-> date.day,
         hour |-> hour, minute |-> minute, second |-> second]

\* (year, month, day) to Julian day number: lines 263-269.
date_to_jd(year, month, day) ==
    LET h == month - gc.m
        g == year + gc.y - TDiv(gc.n - h, gc.n)
        f == TRem(h - 1 + gc.n, gc.n)
        e == TDiv(gc.p * g, gc.r) + day - 1 - gc.j
        jd == e + TDiv(gc.s * f + gc.t, gc.u)
    IN  jd - TDiv(3 * TDiv(g + gc.A, 100), 4) - gc.C

\* (a variant of Correct: the offset is not evaluated again)
Correct_Once(raw0) == Plus(raw0, microleapseconds(raw0))

\* The two-step leap-second correction the constructors inline.
Correct(raw0) ==
    LET ls == microleapseconds(raw0)
        raw1 == Plus(raw0, ls)
    IN  Minus(Plus(raw1, microleapseconds(raw1)), ls)

\* Instant::from_gregorian, with (second * 1_000_000.0) as i64 = usec.
\* jd as f64 - 0.5 - 2400000.5 is exact, and `mjd as i64` is jd - 2400001.
from_gregorian(year, month, day, hour, minute, usec) ==
    LET mjd == date_to_jd(year, month, day) - 2400001
        raw0 == Plus(Norm(mjd, hour * 3600 + minute * 60, usec), MJD_EPOCH)
    IN  Correct(raw0)

\* (a variant of from_gps_week_and_sow: the sum is corrected for leap seconds
\* the way from_unixtime corrects its own)
from_gps_week_and_sow_Corrected(week, sow_usec) ==
    Correct(Plus(Plus(Days(week * 168), sow_usec), GPS_EPOCH))

\* Instant::from_gps_week_and_sow, with (sow * 1.0e6) as i64 = sow_usec (exact
\* for a sow of whole or half seconds).  14_515_200_000_000 microseconds are
\* 168 days; the product stays in i64 for |week| < 635_000.
from_gps_week_and_sow(week, sow_usec) ==
    Plus(Plus(Days(week * 168), sow_usec), GPS_EPOCH)

\* Instant::from_unixtime, with (unixtime * 1.0e6) as i64 = u.
from_unixtime(u) == Correct(Plus(u, UNIX_EPOCH))

\* Instant::now, with since_epoch.as_micros() as i64 = clock (the system clock
\* is at or after 1970-01-01: duration_since(UNIX_EPOCH) is unwrapped).
now(clock) == Correct(clock)

\* Instant::as_unixtime: the i64 that is scaled by 1.0e-6.
as_unixtime(self) == Minus(Minus(self, UNIX_EPOCH), microleapseconds(self))

----------------------------------------------------------------------------
(* src/src/instant.rs: the earlier draft of the kernel, which counts the   *)
(* microseconds from J2000 and holds the offsets in whole seconds.         *)

DRAFT_LEAP_SECOND_TABLE == <<
    <<SecUS(536500868, 184000), 37>>,
    <<SecUS(488980867, 184000), 36>>,
    <<SecUS(394372866, 184000), 35>>,
    <<SecUS(284040065, 184000), 34>>,
    <<SecUS(189345664, 184000), 33>>,
    <<SecUS(-31579136, -816000), 32>>,
    <<SecUS(-79012737, -816000), 31>>,
    <<SecUS(-126273538, -816000), 30>>,
    <<SecUS(-173707139, -816000), 29>>,
    <<SecUS(-205243140, -816000), 28>>,
    <<SecUS(-236779141, -816000), 27>>,
    <<SecUS(-284039942, -816000), 26>>,
    <<SecUS(-315575943, -816000), 25>>,
    <<SecUS(-378734344, -816000), 24>>,
    <<SecUS(-457703945, -816000), 23>>,
    <<SecUS(-520862346, -816000), 22>>,
    <<SecUS(-552398347, -816000), 21>>,
    <<SecUS(-583934348, -816000), 20>>,
    <<SecUS(-631195149, -816000), 19>>,
    <<SecUS(-662731150, -816001), 18>>,
    <<SecUS(-694267151, -816000), 17>>,
    <<SecUS(-725803152, -816000), 16>>,
    <<SecUS(-757425553, -816000), 15>>,
    <<SecUS(-788961554, -816000), 14>>,
    <<SecUS(-820497555, -816000), 13>>,
    <<SecUS(-852033556, -816000), 12>>,
    <<SecUS(-867931157, -816000), 11>>,
    <<SecUS(-883655958, -816000), 10>> >>

RECURSIVE ScanDraftTable(_, _)
ScanDraftTable(raw, i) ==
    IF i > Len(DRAFT_LEAP_SECOND_TABLE) THEN 0
    ELSE IF Ge(raw, DRAFT_LEAP_SECOND_TABLE[i][1])
         THEN DRAFT_LEAP_SECOND_TABLE[i][2]
         ELSE ScanDraftTable(raw, i + 1)

leapseconds(raw) == ScanDraftTable(raw, 1)

----------------------------------------------------------------------------
(* src/src/time/duration.rs *)

\* A whole number as the numeral of the model: n, and hi * 10^6 + lo.
Whole(n) == Norm(0, 0, n)
WholeBig(hi, lo) == Norm(0, hi, lo)

\* x * k for a factor k <= 1000, exactly.
Scale(x, k) == Norm(x[1] * k, x[2] * k, x[3] * k)

\* 2^53, below which every whole number is a double.
TwoTo53 == <<104249, 85654, 740992>>
\* 2^53, 2^54, ..., 2^65.
PowersOfTwo == <<
    <<104249, 85654, 740992>>,
    <<208499, 84909, 481984>>,
    <<416999, 83418, 963968>>,
    <<833999, 80437, 927936>>,
    <<1667999, 74475, 855872>>,
    <<3335999, 62551, 711744>>,
    <<6671999, 38703, 423488>>,
    <<13343998, 77406, 846976>>,
    <<26687997, 68413, 693952>>,
    <<53375995, 50427, 387904>>,
    <<106751991, 14454, 775808>>,
    <<213503982, 28909, 551616>>,
    <<427007964, 57819, 103232>> >>
Pow2(k) == PowersOfTwo[k - 52]

\* a mod m for a >= 0 and m a power of two up to 2^12 (86_400_000_000 is a
\* multiple of 2^13).
ModPow2(a, m) == ((a[2] % m) * (1000000 % m) + a[3]) % m

\* The double nearest to the whole number x (ties to the even mantissa):
\* from 2^(52+e) on, doubles are the multiples of 2^e.
F64Round(x) ==
    LET a == IF Lt(x, Zero) THEN Neg(x) ELSE x
    IN  IF Lt(a, TwoTo53) THEN x
        ELSE LET e == CHOOSE k \in 1..12 :
                          Ge(a, Pow2(52 + k)) /\ Lt(a, Pow2(53 + k))
                 low == ModPow2(a, 2 ^ e)
                 odd == ModPow2(a, 2 ^ (e + 1)) >= 2 ^ e
                 up == low > 2 ^ (e - 1) \/ (low = 2 ^ (e - 1) /\ odd)
                 r == Plus(Minus(a, Whole(low)),
                           IF up THEN Whole(2 ^ e) ELSE Zero)
             IN  IF Lt(x, Zero) THEN Neg(r) ELSE r

\* `f as i64` of a whole double: saturating at the ends of i64.
F64AsI64(x) ==
    IF Gt(x, I64_MAX) THEN I64_MAX ELSE IF Lt(x, I64_MIN) THEN I64_MIN ELSE x

\* Duration::from_seconds(n as f64) and the other units, for a whole number
\* n: the double nearest to n, times the factor, rounded once to a double,
\* then `as i64` (for products below 2^31 days, the numerals of the model).
from_seconds(n) ==
    F64AsI64(F64Round(Scale(Scale(F64Round(n), 1000), 1000)))
from_milliseconds(n) == F64AsI64(F64Round(Scale(F64Round(n), 1000)))
from_minutes(n) ==
    F64AsI64(F64Round(Scale(Scale(Scale(F64Round(n), 60), 1000), 1000)))
from_hours(n) ==
    F64AsI64(F64Round(Scale(Scale(Scale(Scale(F64Round(n), 60), 60), 1000), 1000)))
from_days(n) ==
    F64AsI64(F64Round(Scale(Scale(Scale(Scale(F64Round(n), 864), 100), 1000), 1000)))
\* Duration::new / Duration::from_microseconds; Duration::as_microseconds.
from_microseconds(usec) == usec
as_microseconds(self) == self

\* floor(log2(n)) for n >= 1.
RECURSIVE Log2(_)
Log2(n) == IF n < 2 THEN 0 ELSE 1 + Log2(n \div 2)

\* The binary exponent of k / 10^6: the largest a <= from with 2^a <= k / 10^6.
RECURSIVE BinExp(_, _)
BinExp(k, from) ==
    IF \/ from >= 0 /\ (2 ^ from) * 1000000 <= k
       \/ from < 0 /\ 1000000 <= k * (2 ^ (-from))
    THEN from
    ELSE BinExp(k, from - 1)

\* 2^n mod 15625.
RECURSIVE PowMod(_)
PowMod(n) == IF n = 0 THEN 1 ELSE (2 * PowMod(n - 1)) % 15625

\* (second * 1_000_000.0) as i64, for `second` the double nearest to k / 10^6
\* seconds, 0 <= k < 64 * 10^6.  With a the binary exponent of the double, its
\* mantissa is m = round(k * 2^(46-a) / 15625) (10^6 = 2^6 * 15625), and the
\* exact product is k + e / 2^(46-a) with e = 15625 * m - k * 2^(46-a).  The
\* product is rounded to a double once: it is k unless it lies more than half
\* an ulp of k below k, and then the truncation is k - 1 (32.184 gives
\* 32183999).
SecondsToMicros(k) ==
    IF k = 0 THEN 0
    ELSE LET a == BinExp(k, 5)
             c == Log2(k)
             r == ((k % 15625) * PowMod(46 - a)) % 15625
             halfUlp == IF 2 ^ c = k THEN 2 ^ (c - a - 8) ELSE 2 ^ (c - a - 7)
         IN  IF r = 0 \/ r > 7812 \/ r <= halfUlp THEN k ELSE k - 1

\* x * y as <<hi, lo>> = hi * 2^16 + lo, for 0 <= x < 2^14 and 0 <= y < 2^26.
Product16(x, y) ==
    LET yh == y \div 65536
        yl == y % 65536
    IN  <<x * yh + (x * yl) \div 65536, (x * yl) % 65536>>

\* x * 2^e as <<hi, lo>>, for 0 <= x < 2^14 and 0 <= e <= 24.
Shifted16(x, e) ==
    IF e >= 16 THEN <<x * (2 ^ (e - 16)), 0>>
    ELSE <<(x * (2 ^ e)) \div 65536, (x * (2 ^ e)) % 65536>>

\* The seconds of gregorian() given back to from_gregorian:
\* ((k as f64 * 1.0e-6) * 1_000_000.0) as i64 for 0 <= k < 64 * 10^6.
\* The double 1.0e-6 is (2^66 - 3339) / (15625 * 2^72), a little under 10^-6.
\* With a the binary exponent of k / 10^6 and k * 2^(46-a) = 15625 * m + r, the
\* first product k * 1.0e-6 has the mantissa m + (r - 3339 * k / 2^(20+a)) / 15625
\* before rounding: it rounds up to m + 1 iff
\* (2 * r - 15625) * 2^(19+a) >= 3339 * k (a tie has m odd), and down to m
\* otherwise.  Rounded up, the second product is at least k and truncates to
\* k; rounded down it is k - r / 2^(46-a), as in SecondsToMicros.
SecondsRoundTrip(k) ==
    IF k = 0 THEN 0
    ELSE LET a == BinExp(k, 5)
             c == Log2(k)
             r == ((k % 15625) * PowMod(46 - a)) % 15625
             x == 2 * r - 15625
             up == /\ x > 0
                   /\ IF 19 + a < 0
                      THEN x >= 3339 * k * (2 ^ (-(19 + a)))
                      ELSE LET l == Shifted16(x, 19 + a)
                               h == Product16(3339, k)
                           IN  l[1] > h[1] \/ (l[1] = h[1] /\ l[2] >= h[2])
             halfUlp == IF 2 ^ c = k THEN 2 ^ (c - a - 8) ELSE 2 ^ (c - a - 7)
         IN  IF r = 0 \/ up \/ r <= halfUlp THEN k ELSE k - 1

----------------------------------------------------------------------------
(* src/src/time/instant_ops.rs: the exact results; the i64 result is the   *)
(* same unless it overflows.                                               *)

\* impl Add<Duration> for Instant (and the &-variants): self.0 + other.0
add(self, other) == Plus(self, other)
\* (a variant of sub: the body of add)
sub_Adds(self, other) == Plus(self, other)
\* impl Sub<Duration> for Instant (and the &-variants): self.0 - other.0
sub(self, other) == Minus(self, other)
\* impl AddAssign<Duration> / SubAssign<Duration> for Instant
add_assign(self, other) == Plus(self, other)
sub_assign(self, other) == Minus(self, other)
\* impl Sub<Instant> for Instant (and the &-variants): Duration(self.0 - other.0)
sub_instant(self, other) == Minus(self, other)
\* impl PartialOrd for Instant and for Duration: self.0.partial_cmp(&other.0),
\* which for i64 is Some(Less), Some(Equal) or Some(Greater).
partial_cmp(self, other) ==
    IF Lt(self, other) THEN "Less"
    ELSE IF Lt(other, self) THEN "Greater"
    ELSE IF self = other THEN "Equal" ELSE "None"
\* impl PartialEq for Instant and for Duration: self.0 == other.0
eq(self, other) == self = other
\* impl Add<Duration> for Duration: Self(self.0 + other.0)
duration_add(self, other) == Plus(self, other)
\* impl Sub<Duration> for Duration: Self(self.0 - other.0)
duration_sub(self, other) == Minus(self, other)

----------------------------------------------------------------------------
(* Bounds and inputs *)

\* Microsecond offsets tried on either side of each boundary.
Fuzz == 1
\* Arithmetic operations applied in a row to a constructed Instant.
MaxSteps == 2

Offsets == (-Fuzz)..Fuzz
Entries == 1..Len(LEAP_SECOND_TABLE)
Threshold(i) == LEAP_SECOND_TABLE[i][1]
Offset(i) == LEAP_SECOND_TABLE[i][2]
\* The offset in force before entry i.
PrevOffset(i) == IF i = Len(LEAP_SECOND_TABLE) THEN Zero ELSE Offset(i + 1)

\* Raw counts given to Instant::new: around every threshold, inside and at the
\* end of every leap-second window, the epochs, and counts before 1970.
RawInputs ==
    UNION {
        {Plus(Threshold(i), US(k)) : k \in Offsets}
        \cup {Plus(Threshold(i), US(1000000 + k)) : k \in Offsets}
        \cup {Plus(Threshold(i), US(500000)), Minus(Threshold(i), US(1000000))}
        : i \in Entries }
    \cup {UNIX_EPOCH, GPS_EPOCH, MJD_EPOCH, J2000}
    \cup {US(-1), US(-1000000), Norm(-1, 0, -1), Norm(-3653, 43200, 0)}

\* UTC magnitudes given to Instant::from_unixtime (the i64 of line 142):
\* around the values whose first or second estimate meets a threshold.
UnixInputs ==
    UNION {
        {Plus(Minus(Threshold(i), PrevOffset(i)), US(k)) : k \in Offsets}
        \cup {Plus(Minus(Threshold(i), Offset(i)), US(k)) : k \in Offsets}
        \cup {Plus(Threshold(i), US(k)) : k \in Offsets}
        : i \in Entries }
    \cup {Zero, US(-1), Sec(-86400), Sec(1700000000)}

\* The first civil day of each regime: the dates in the comments of the table.
REGIME_START == <<
    <<2017, 1, 1>>, <<2015, 7, 1>>, <<2012, 7, 1>>, <<2009, 1, 1>>,
    <<2006, 1, 1>>, <<1999, 1, 1>>, <<1997, 7, 1>>, <<1996, 1, 1>>,
    <<1994, 7, 1>>, <<1993, 7, 1>>, <<1992, 7, 1>>, <<1991, 1, 1>>,
    <<1990, 1, 1>>, <<1988, 1, 1>>, <<1985, 7, 1>>, <<1983, 7, 1>>,
    <<1982, 7, 1>>, <<1981, 7, 1>>, <<1980, 1, 1>>, <<1979, 1, 1>>,
    <<1978, 1, 1>>, <<1977, 1, 1>>, <<1976, 1, 1>>, <<1975, 1, 1>>,
    <<1974, 1, 1>>, <<1973, 1, 1>>, <<1972, 7, 1>>, <<1972, 1, 1>> >>

\* The civil day before the first day of regime i (31 December or 30 June).
DayBefore(i) ==
    LET s == REGIME_START[i]
    IN  IF s[2] = 1 THEN <<s[1] - 1, 12, 31>> ELSE <<s[1], 6, 30>>

Civil(y, mo, d, h, mi, us) ==
    [year |-> y, month |-> mo, day |-> d, hour |-> h, minute |-> mi, second |-> us]

\* Civil days: around every insertion, and days that exercise the epochs,
\* the years before 1970 and the leap-year rules.
InsertionDates ==
    {REGIME_START[i] : i \in Entries} \cup {DayBefore(i) : i \in Entries}
OtherDates ==
    {<<1970, 1, 1>>, <<1980, 1, 6>>, <<1858, 11, 17>>, <<2000, 1, 1>>,
     <<1969, 12, 31>>, <<1960, 6, 1>>, <<1900, 2, 28>>, <<1900, 3, 1>>,
     <<2000, 2, 29>>, <<2024, 2, 29>>, <<2024, 11, 13>>, <<2024, 11, 24>>,
     <<2100, 2, 28>>, <<2100, 3, 1>>}

\* Times of day (hour, minute, microseconds of the minute): whole seconds,
\* fractions, and the last microseconds before noon and before midnight.
EdgeTimes == {<<0, 0, 0>>, <<12, 0, 0>>, <<23, 59, 59000000>>}
OtherTimes ==
    {<<8, 0, 3000000>>, <<11, 58, 55816000>>, <<18, 30, 500000>>,
     <<12, 0, 32184000>>}
    \cup {<<11, 59, 59999979 + k>> : k \in Offsets}
    \cup {<<23, 59, 59999999 - Fuzz + k>> : k \in Offsets}

CivilInputs ==
    {Civil(dt[1], dt[2], dt[3], tm[1], tm[2], tm[3]) :
        dt \in InsertionDates, tm \in EdgeTimes}
    \cup {Civil(dt[1], dt[2], dt[3], tm[1], tm[2], tm[3]) :
        dt \in OtherDates, tm \in EdgeTimes \cup OtherTimes}

\* Durations applied to a constructed Instant (the ones of the tests).
StepDurations == {from_seconds(Whole(1)), from_seconds(Whole(2))}
\* Instants the in-place arithmetic starts from: Instant::new of every threshold.
StepInstants == {Threshold(i) : i \in Entries}

\* Instants and Durations of the operator algebra, the ends of i64 included.
OpsInstants ==
    {I64_MIN, UNIX_EPOCH, Threshold(1), Minus(I64_MAX, US(1)), I64_MAX}
OpsDurations ==
    {from_microseconds(US(0)), from_microseconds(US(1)), from_microseconds(US(-1)),
     from_microseconds(I64_MAX), from_microseconds(I64_MIN)}

\* Pairs of civil timestamps whose Instants are subtracted: the ones of
\* tests::test_ops, the two sides of the 2016-2017 insertion, and days before
\* 1970.  Their seconds convert to microseconds without rounding.
PairInputs ==
    {Civil(2024, 11, 13, 8, 0, 3000000), Civil(2024, 11, 13, 8, 0, 4000000),
     Civil(2024, 11, 13, 8, 0, 2000000), Civil(2024, 11, 13, 8, 1, 3000000),
     Civil(2016, 12, 31, 12, 0, 0), Civil(2017, 1, 1, 0, 0, 0),
     Civil(2017, 1, 1, 12, 0, 0), Civil(2017, 1, 2, 0, 0, 500000),
     Civil(2000, 2, 28, 18, 30, 0), Civil(1969, 12, 30, 12, 0, 0)}
\* Civil fields outside their ranges, one field at a time, and valid
\* timestamps next to them.
RangeInputs ==
    {Civil(2024, 13, 1, 0, 0, 0), Civil(2024, 0, 1, 0, 0, 0),
     Civil(2024, 1, 32, 0, 0, 0), Civil(2024, 1, 0, 0, 0, 0),
     Civil(2023, 2, 29, 0, 0, 0), Civil(2024, 1, 1, 24, 0, 0),
     Civil(2024, 1, 1, -1, 0, 0), Civil(2024, 1, 1, 0, 60, 0),
     Civil(2024, 1, 1, 0, -1, 0), Civil(2024, 1, 1, 0, 0, 61000000),
     Civil(2024, -1, 1, 0, 0, 0), Civil(2024, 25, 1, 0, 0, 0)}
    \cup {Civil(2024, 12, 31, 23, 59, 59000000), Civil(2024, 1, 1, 0, 0, 0),
          Civil(2024, 2, 29, 12, 0, 0), Civil(2025, 1, 1, 0, 0, 0),
          Civil(2016, 12, 31, 23, 59, 60000000)}

\* GPS weeks and seconds of week (as microseconds) given to
\* Instant::from_gps_week_and_sow.
GpsWeeks == {0, 1, 2, 1023, 1024, 2086, 2345}
GpsSows == {Zero, Sec(1), US(500000), Sec(302400), Sec(604799)}

\* Raw counts whose offset is looked up: around every threshold, the ends of
\* i64, and counts before the table.
LookupInputs ==
    UNION {{Plus(Threshold(i), US(k)) : k \in Offsets} : i \in Entries}
    \cup {I64_MIN, I64_MAX, Zero, US(-1), Minus(Threshold(Len(LEAP_SECOND_TABLE)), Sec(1))}
\* The same for the draft, whose counts run from J2000.
DraftLookupInputs ==
    UNION {{DRAFT_LEAP_SECOND_TABLE[i][1],
            Minus(DRAFT_LEAP_SECOND_TABLE[i][1], US(1))}
           : i \in 1..Len(DRAFT_LEAP_SECOND_TABLE)}
    \cup {I64_MIN, I64_MAX, Zero}

\* Whole numbers given to the constructors of Duration: small ones, and for
\* each unit numbers whose product with the factor is above 2^53.
SmallWholes == {Whole(0), Whole(1), Whole(-1), Whole(3), Whole(-7), Whole(86400)}
SecondsWholes ==
    SmallWholes \cup {WholeBig(576460, 752304), WholeBig(576460, 752305),
                      WholeBig(-576460, -752305), WholeBig(9223372, 36854)}
MillisecondsWholes == SmallWholes \cup {WholeBig(72057594, 37929)}
MinutesWholes == SmallWholes \cup {WholeBig(38430, 716821)}
HoursWholes == SmallWholes \cup {WholeBig(2562, 47787)}
DaysWholes == SmallWholes \cup {Whole(106751991), Whole(-106751991)}
MicrosecondsValues == {Zero, US(1), US(-1), I64_MAX, I64_MIN}

\* Whole days added to an Instant (Duration::from_days(1.0) is the test's).
DayDurations == {from_days(Whole(1)), from_days(Whole(2))}

\* Threads of the process that call the kernel at the same time.
NThreads == 2
Threads == 1..NThreads
Idle == [pc |-> "idle", op |-> "none", arg |-> Zero, i |-> 1, x |-> Zero,
         ls |-> Zero, ret |-> Zero]
\* Raw counts the threads look up (the scan ends at entry 1, 2, 3 and past the
\* table), and UTC magnitudes they convert.
ConcRaws == {Plus(Threshold(1), US(1)), Threshold(1), Threshold(2)}
ConcEarlyRaws == {Zero}
ConcUnix == {Minus(Threshold(1), Offset(2)), Sec(1700000000)}

None == [call |-> "none"]

----------------------------------------------------------------------------
(* src/src/basemath/matrix.rs *)

\* struct Matrix<M, N> { data: [[f64; M]; N] }: N arrays (the columns) of M
\* elements each, data[c][r] for c in 0..N-1 and r in 0..M-1.
Matrix(M, N, data) == [M |-> M, N |-> N, data |-> data]

\* No matrix constructed yet
NoMatrix == Matrix(0, 0, <<>>)

\* Matrix::zeros
zeros(M, N) == Matrix(M, N, [c \in 0..(N - 1) |-> [r \in 0..(M - 1) |-> 0]])

\* Matrix::from_row_major_array: m.data[j][i] = data[i][j]
from_row_major_array(M, N, data) ==
    Matrix(M, N, [j \in 0..(N - 1) |-> [i \in 0..(M - 1) |-> data[i][j]]])

\* self.data[i][j] is inside the arrays (an index outside panics)
InArray(self, i, j) == i \in 0..(self.N - 1) /\ j \in 0..(self.M - 1)

\* Matrix::get: self.data[row][col]
get(self, row, col) == self.data[row][col]

\* Matrix::set: self.data[row][col] = value
set(self, row, col, value) ==
    [self EXCEPT !.data[row][col] = value]

\* impl Index<(usize, usize)>: &self.data[index.1][index.0]
index(self, row, col) == self.data[col][row]

\* impl IndexMut<(usize, usize)>: m[(row, col)] = value
index_mut(self, row, col, value) == [self EXCEPT !.data[col][row] = value]

----------------------------------------------------------------------------
(* The state machine: a client holding Instants and calling the kernel *)

VARIABLES
    t,          \* the Instant the client holds (`let mut t`): its raw count
    b,          \* a second Instant (a copy of t when t is constructed),
                \* shifted together with t
    made,       \* the constructor call that made t, and its argument
    steps,      \* the arithmetic applied to t and b since: <<[op, d, t, b]>>
    out,        \* the last value an accessor or a binary operator returned
    checks,     \* TRUE iff the build has overflow checks (debug profile)
    panicked,   \* TRUE once an overflow check has aborted the program
    table,      \* LEAP_SECOND_TABLE as the threads of the process read it
    calls,      \* per thread: the kernel call in progress (pc = "idle" if none):
                \* its argument, the count x it looks up, the index i of its
                \* scan, the first offset ls it found and the value ret it returns
    mat         \* the Matrix<M, N> the client holds (`let mut m`): M, N and data

vars == <<t, b, made, steps, out, checks, panicked, table, calls, mat>>

\* Instant::new(raw)
New(raw) ==
    /\ made.by = "none"
    /\ t' = raw
    /\ b' = raw
    /\ made' = [by |-> "new", arg |-> raw]
    /\ steps' = <<>>
    /\ out' = None
    /\ UNCHANGED <<mat, table, calls, checks, panicked>>

\* Instant::from_gregorian(c.year, ..., c.second microseconds as f64 seconds).
\* The function returns Self on every path (it has no Result and no panic on
\* the fields): made.ret records what the caller gets.
FromGregorian(c) ==
    /\ made.by = "none"
    /\ t' = from_gregorian(c.year, c.month, c.day, c.hour, c.minute,
                           SecondsToMicros(c.second))
    /\ b' = t'
    /\ made' = [by |-> "from_gregorian", arg |-> c, ret |-> "Instant"]
    /\ steps' = <<>>
    /\ out' = None
    /\ UNCHANGED <<mat, table, calls, checks, panicked>>

\* Instant::from_unixtime(unixtime), u the microseconds of line 142
FromUnixtime(u) ==
    /\ made.by = "none"
    /\ t' = from_unixtime(u)
    /\ b' = t'
    /\ made' = [by |-> "from_unixtime", arg |-> u]
    /\ steps' = <<>>
    /\ out' = None
    /\ UNCHANGED <<mat, table, calls, checks, panicked>>

\* let t = Instant::from_gregorian(c1); let b = Instant::from_gregorian(c2)
FromGregorianPair(c1, c2) ==
    /\ made.by = "none"
    /\ t' = from_gregorian(c1.year, c1.month, c1.day, c1.hour, c1.minute,
                           SecondsToMicros(c1.second))
    /\ b' = from_gregorian(c2.year, c2.month, c2.day, c2.hour, c2.minute,
                           SecondsToMicros(c2.second))
    /\ made' = [by |-> "from_gregorian_pair", arg |-> c1, arg2 |-> c2]
    /\ steps' = <<>>
    /\ out' = None
    /\ UNCHANGED <<mat, table, calls, checks, panicked>>

\* let t = Instant::from_gps_week_and_sow(week, sow);
\* let b = Instant::from_gps_week_and_sow(week + 1, sow)
FromGpsWeekAndSow(week, sow) ==
    /\ made.by = "none"
    /\ t' = from_gps_week_and_sow(week, sow)
    /\ b' = from_gps_week_and_sow(week + 1, sow)
    /\ made' = [by |-> "from_gps_week_and_sow", week |-> week, sow |-> sow]
    /\ steps' = <<>>
    /\ out' = None
    /\ UNCHANGED <<mat, table, calls, checks, panicked>>

\* microleapseconds(t.raw); microleapseconds(b.raw)
Microleapseconds ==
    /\ ~panicked
    /\ out' = [call |-> "microleapseconds", val |-> microleapseconds(t),
               val2 |-> microleapseconds(b)]
    /\ UNCHANGED <<mat, table, calls, t, b, made, steps, checks, panicked>>

\* leapseconds(t.raw); leapseconds(b.raw), of the draft
Leapseconds ==
    /\ ~panicked
    /\ out' = [call |-> "leapseconds", val |-> leapseconds(t),
               val2 |-> leapseconds(b)]
    /\ UNCHANGED <<mat, table, calls, t, b, made, steps, checks, panicked>>

\* The loop variable of the scan a thread runs: `for (t, ls) in
\* LEAP_SECOND_TABLE.iter()` makes an iterator of the call's own.
\* (a variant of Cursor: one cursor for the whole process)
Cursor_Static(th) == 1
Cursor(th) == th

\* Thread th calls microleapseconds(arg), Instant::new(arg).as_unixtime() or
\* Instant::from_unixtime(arg microseconds): the call starts its first scan.
Call(th, op, arg) ==
    /\ calls[th].pc = "idle"
    /\ calls' = [calls EXCEPT ![th] =
                    [pc |-> "scan1", op |-> op, arg |-> arg, i |-> 1,
                     x |-> IF op = "from_unixtime" THEN Plus(arg, UNIX_EPOCH)
                           ELSE arg,
                     ls |-> Zero, ret |-> Zero]]
    /\ UNCHANGED <<mat, t, b, made, steps, out, checks, panicked, table>>

\* One iteration of the loop of microleapseconds in thread th, and, when the
\* loop returns, the rest of the caller up to its next lookup or its return.
ScanStep(th) ==
    LET c == calls[th]
        i == calls[Cursor(th)].i
        ended == i > Len(table)
        found == ~ended /\ Gt(c.x, table[i][1])
        v == IF found THEN table[i][2] ELSE Zero
    IN  /\ c.pc \in {"scan1", "scan2"}
        /\ calls' = [calls EXCEPT ![th] =
              IF ~(found \/ ended) THEN [c EXCEPT !.i = i + 1]
              ELSE IF c.op = "microleapseconds"
                   THEN [c EXCEPT !.pc = "done", !.ret = v]
              ELSE IF c.op = "as_unixtime"
                   THEN [c EXCEPT !.pc = "done",
                                  !.ret = Minus(Minus(c.arg, UNIX_EPOCH), v)]
              ELSE IF c.pc = "scan1"
                   THEN [c EXCEPT !.pc = "scan2", !.ls = v,
                                  !.x = Plus(c.x, v), !.i = 1]
              ELSE [c EXCEPT !.pc = "done",
                             !.ret = Minus(Plus(c.x, v), c.ls)]]
        /\ UNCHANGED <<mat, t, b, made, steps, out, checks, panicked, table>>

\* Thread th computes Instant::new(arg) + d: no lookup, one step.
AddCall(th, arg, d) ==
    /\ calls[th].pc = "idle"
    /\ calls' = [calls EXCEPT ![th] =
                    [pc |-> "done", op |-> "add", arg |-> arg, i |-> 1,
                     x |-> d, ls |-> Zero, ret |-> add(arg, d)]]
    /\ UNCHANGED <<mat, t, b, made, steps, out, checks, panicked, table>>

\* Thread th takes the value returned and is free for its next call.
Return(th) ==
    /\ calls[th].pc = "done"
    /\ calls' = [calls EXCEPT ![th] = Idle]
    /\ UNCHANGED <<mat, t, b, made, steps, out, checks, panicked, table>>

\* t.gregorian()
Gregorian ==
    /\ made.by # "none"
    /\ ~panicked
    /\ F64Exact(as_mjd(t))
    /\ out' = [call |-> "gregorian", val |-> gregorian(t)]
    /\ UNCHANGED <<mat, table, calls, t, b, made, steps, checks, panicked>>

\* t.as_unixtime()
AsUnixtime ==
    /\ made.by # "none"
    /\ ~panicked
    /\ out' = [call |-> "as_unixtime", val |-> as_unixtime(t)]
    /\ UNCHANGED <<mat, table, calls, t, b, made, steps, checks, panicked>>

\* t.as_mjd()
AsMjd ==
    /\ made.by # "none"
    /\ ~panicked
    /\ F64Exact(as_mjd(t))
    /\ out' = [call |-> "as_mjd", val |-> as_mjd(t)]
    /\ UNCHANGED <<mat, table, calls, t, b, made, steps, checks, panicked>>

\* t.as_jd()
AsJd ==
    /\ made.by # "none"
    /\ ~panicked
    /\ F64Exact(as_mjd(t))
    /\ out' = [call |-> "as_jd", val |-> as_jd(t)]
    /\ UNCHANGED <<mat, table, calls, t, b, made, steps, checks, panicked>>

\* An arithmetic operator applied to t and to b with the same Duration d:
\* rt and rb are the exact results.  With overflow checks an overflow aborts;
\* without, the i64 result wraps.
Arith(op, d, rt, rb) ==
    /\ made.by # "none"
    /\ ~panicked
    /\ Len(steps) < MaxSteps
    /\ IF (InI64(rt) /\ InI64(rb)) \/ ~checks
       THEN /\ t' = Wrap(rt)
            /\ b' = Wrap(rb)
            /\ steps' = Append(steps, [op |-> op, d |-> d, t |-> t, b |-> b])
            /\ out' = None
            /\ UNCHANGED <<mat, table, calls, made, checks, panicked>>
       ELSE /\ panicked' = TRUE
            /\ UNCHANGED <<mat, table, calls, t, b, made, steps, out, checks>>

\* t = t + d;  t = t - d;  t += d;  t -= d
AddDuration(d) == Arith("add", d, add(t, d), add(b, d))
SubDuration(d) == Arith("sub", d, sub(t, d), sub(b, d))
AddAssign(d) == Arith("add_assign", d, add_assign(t, d), add_assign(b, d))
SubAssign(d) == Arith("sub_assign", d, sub_assign(t, d), sub_assign(b, d))

\* b - t
SubInstant ==
    /\ ~panicked
    /\ LET r == sub_instant(b, t)
       IN  IF InI64(r) \/ ~checks
           THEN /\ out' = [call |-> "sub_instant", val |-> as_microseconds(Wrap(r))]
                /\ UNCHANGED <<mat, table, calls, t, b, made, steps, checks, panicked>>
           ELSE /\ panicked' = TRUE
                /\ UNCHANGED <<mat, table, calls, t, b, made, steps, out, checks>>

\* A constructor of Duration called with n: the Duration d is returned.
DurationFrom(by, n, d) ==
    /\ ~panicked
    /\ out.call = "none"
    /\ out' = [call |-> "duration", by |-> by, arg |-> n, val |-> d]
    /\ UNCHANGED <<mat, t, b, made, steps, checks, panicked, table, calls>>

FromSeconds(n) == DurationFrom("from_seconds", n, from_seconds(n))
FromMilliseconds(n) == DurationFrom("from_milliseconds", n, from_milliseconds(n))
FromMinutes(n) == DurationFrom("from_minutes", n, from_minutes(n))
FromHours(n) == DurationFrom("from_hours", n, from_hours(n))
FromDays(n) == DurationFrom("from_days", n, from_days(n))
FromMicroseconds(x) == DurationFrom("from_microseconds", x, from_microseconds(x))

\* let dt = b - t; dt + d (dt - d): an operator of Duration applied to the
\* Duration in hand (the one b - t or a constructor returned).  rd is the
\* exact result.
DurationArith(op, d, rd) ==
    /\ ~panicked
    /\ out.call \in {"sub_instant", "duration"}
    /\ IF InI64(rd) \/ ~checks
       THEN /\ out' = [call |-> op, self |-> out.val, other |-> d,
                       val |-> as_microseconds(Wrap(rd))]
            /\ UNCHANGED <<mat, table, calls, t, b, made, steps, checks, panicked>>
       ELSE /\ panicked' = TRUE
            /\ UNCHANGED <<mat, table, calls, t, b, made, steps, out, checks>>

DurationAdd(d) == DurationArith("duration_add", d, duration_add(out.val, d))
DurationSub(d) == DurationArith("duration_sub", d, duration_sub(out.val, d))

\* t.partial_cmp(&b), b.partial_cmp(&t) and t == b
Compare ==
    /\ ~panicked
    /\ out' = [call |-> "partial_cmp", val |-> partial_cmp(t, b),
               rev |-> partial_cmp(b, t), eq |-> eq(t, b)]
    /\ UNCHANGED <<mat, t, b, made, steps, checks, panicked, table, calls>>

\* let dt = b - t; dt.partial_cmp(&d), d.partial_cmp(&dt) and dt == d
DurationCompare(d) ==
    /\ ~panicked
    /\ out.call = "sub_instant"
    /\ out' = [call |-> "duration_partial_cmp", self |-> out.val, other |-> d,
               val |-> partial_cmp(out.val, d), rev |-> partial_cmp(d, out.val),
               eq |-> eq(out.val, d)]
    /\ UNCHANGED <<mat, t, b, made, steps, checks, panicked, table, calls>>

\* The conversions: one constructor call, then accessor calls.
\* Before the constructor call the client holds no Instant
\* (made.by = "none"; t and b are placeholders).
Init ==
    /\ t = UNIX_EPOCH
    /\ b = UNIX_EPOCH
    /\ made = [by |-> "none"]
    /\ steps = <<>>
    /\ out = None
    /\ checks \in BOOLEAN
    /\ panicked = FALSE
    /\ table = LEAP_SECOND_TABLE
    /\ calls = [th \in Threads |-> Idle]
    /\ mat = NoMatrix

Next ==
    \/ \E raw \in RawInputs : New(raw)
    \/ \E c \in CivilInputs : FromGregorian(c)
    \/ \E u \in UnixInputs : FromUnixtime(u)
    \/ Gregorian
    \/ AsUnixtime
    \/ AsMjd
    \/ AsJd

Spec == Init /\ [][Next]_vars

\* In-place arithmetic on an Instant made by Instant::new, read back by the
\* accessors (the scenario of tests::test_leapsecond, at every threshold).
StepInit ==
    /\ t \in StepInstants
    /\ b = t
    /\ made = [by |-> "new", arg |-> t]
    /\ steps = <<>>
    /\ out = None
    /\ checks \in BOOLEAN
    /\ panicked = FALSE
    /\ table = LEAP_SECOND_TABLE
    /\ calls = [th \in Threads |-> Idle]
    /\ mat = NoMatrix

StepNext ==
    \/ \E d \in StepDurations : AddAssign(d)
    \/ \E d \in StepDurations : SubAssign(d)
    \/ Gregorian
    \/ AsUnixtime

StepSpec == StepInit /\ [][StepNext]_vars

\* from_gregorian called with fields in and out of their ranges.
RangeNext ==
    \/ \E c \in RangeInputs : FromGregorian(c)
    \/ Gregorian
    \/ AsUnixtime
    \/ AsMjd

RangeSpec == Init /\ [][RangeNext]_vars

\* Instants made from GPS week and second of week.
GpsNext ==
    \/ \E week \in GpsWeeks, sow \in GpsSows : FromGpsWeekAndSow(week, sow)
    \/ SubInstant
    \/ Gregorian
    \/ AsUnixtime

GpsSpec == Init /\ [][GpsNext]_vars

\* The leap-second lookup of two raw counts.
LookupInit ==
    /\ \/ t \in LookupInputs /\ b \in LookupInputs
       \/ t \in DraftLookupInputs /\ b \in DraftLookupInputs
    /\ made = [by |-> "new", arg |-> t]
    /\ steps = <<>>
    /\ out = None
    /\ checks \in BOOLEAN
    /\ panicked = FALSE
    /\ table = LEAP_SECOND_TABLE
    /\ calls = [th \in Threads |-> Idle]
    /\ mat = NoMatrix

LookupNext ==
    \/ Microleapseconds
    \/ Leapseconds

LookupSpec == LookupInit /\ [][LookupNext]_vars

\* Threads calling the kernel without coordination.
ConcNext ==
    \E th \in Threads :
        \/ \E raw \in ConcRaws \cup ConcEarlyRaws :
               Call(th, "microleapseconds", raw)
        \/ \E raw \in ConcRaws : Call(th, "as_unixtime", raw)
        \/ \E u \in ConcUnix : Call(th, "from_unixtime", u)
        \/ \E raw \in ConcRaws : AddCall(th, raw, from_seconds(Whole(1)))
        \/ ScanStep(th)
        \/ Return(th)

ConcSpec == Init /\ [][ConcNext]_vars

\* Two Instants made from civil timestamps: their difference, and whole days
\* added to them (the scenario of tests::test_ops).
DiffNext ==
    \/ \E c1, c2 \in PairInputs : FromGregorianPair(c1, c2)
    \/ SubInstant
    \/ \E d \in DayDurations : AddDuration(d)
    \/ Gregorian

DiffSpec == Init /\ [][DiffNext]_vars

\* The operator algebra on two Instants, over the whole i64 range.
OpsInit ==
    /\ t \in OpsInstants
    /\ b \in OpsInstants
    /\ made = [by |-> "new", arg |-> t]
    /\ steps = <<>>
    /\ out = None
    /\ checks \in BOOLEAN
    /\ panicked = FALSE
    /\ table = LEAP_SECOND_TABLE
    /\ calls = [th \in Threads |-> Idle]
    /\ mat = NoMatrix

OpsNext ==
    \/ \E d \in OpsDurations : AddDuration(d)
    \/ \E d \in OpsDurations : SubDuration(d)
    \/ \E d \in OpsDurations : AddAssign(d)
    \/ \E d \in OpsDurations : SubAssign(d)
    \/ SubInstant

OpsSpec == OpsInit /\ [][OpsNext]_vars

\* The operators that return a new value, of Instant and of Duration.
WrapNext ==
    \/ \E d \in OpsDurations : AddDuration(d)
    \/ \E d \in OpsDurations : SubDuration(d)
    \/ SubInstant
    \/ \E d \in OpsDurations : DurationAdd(d)
    \/ \E d \in OpsDurations : DurationSub(d)

WrapSpec == OpsInit /\ [][WrapNext]_vars

\* Durations made from whole numbers of each unit, and their sums.
ScaleNext ==
    \/ \E n \in SecondsWholes : FromSeconds(n)
    \/ \E n \in MillisecondsWholes : FromMilliseconds(n)
    \/ \E n \in MinutesWholes : FromMinutes(n)
    \/ \E n \in HoursWholes : FromHours(n)
    \/ \E n \in DaysWholes : FromDays(n)
    \/ \E x \in MicrosecondsValues : FromMicroseconds(x)
    \/ \E d \in OpsDurations : DurationAdd(d)

ScaleSpec == Init /\ [][ScaleNext]_vars

\* Comparisons and differences of two Instants and of two Durations.
OrdNext ==
    \/ Compare
    \/ SubInstant
    \/ \E d \in OpsDurations : DurationCompare(d)
    \/ \E d \in OpsDurations : DurationSub(d)

OrdSpec == OpsInit /\ [][OrdNext]_vars
----------------------------------------------------------------------------
(* Properties *)

Last(seq) == seq[Len(seq)]
Abs(n) == IF n < 0 THEN -n ELSE n
IsAdd(op) == op \in {"add", "add_assign"}
IsSub(op) == op \in {"sub", "sub_assign"}

\* g and c are the same civil timestamp, the seconds to within tol microseconds.
SameCivil(g, c, tol) ==
    /\ g.year = c.year /\ g.month = c.month /\ g.day = c.day
    /\ g.hour = c.hour /\ g.minute = c.minute
    /\ Abs(g.second - c.second) <= tol

\* The offset of the first entry, in descending order, with threshold <= raw.
FirstAtOrBelow(raw) ==
    LET S == {i \in Entries : Le(Threshold(i), raw)}
    IN  IF S = {} THEN Zero
        ELSE Offset(CHOOSE i \in S : \A k \in S : i <= k)

\* C1: from_gregorian(c).gregorian() returns c, the seconds to within one
\* microsecond, for every valid civil timestamp c (before and after 1970,
\* midnights that follow an insertion included).
C1_GregorianRoundTrip ==
    (made.by = "from_gregorian" /\ out.call = "gregorian")
        => SameCivil(out.val, made.arg, 1)

\* C2: the Instant of the 2016-2017 insertion reads 2016-12-31T23:59:60; after
\* `-= 1 s` it reads 23:59:59 of that day; after `+= 2 s` more it reads
\* 2017-01-01T00:00:00.
C2_LeapSecondScenario ==
    (made.by = "new" /\ made.arg = Threshold(1) /\ out.call = "gregorian") =>
        /\ steps = <<>> => out.val = Civil(2016, 12, 31, 23, 59, 60000000)
        /\ (Len(steps) >= 1 /\ steps[1].op = "sub_assign"
                /\ steps[1].d = from_seconds(Whole(1))) =>
              /\ Len(steps) = 1 => out.val = Civil(2016, 12, 31, 23, 59, 59000000)
              /\ (Len(steps) = 2 /\ steps[2].op = "add_assign"
                      /\ steps[2].d = from_seconds(Whole(2))) =>
                    out.val = Civil(2017, 1, 1, 0, 0, 0)

C2_Witness ==
    /\ made.by = "new" /\ made.arg = Threshold(1)
    /\ Len(steps) = 2
    /\ steps[1].op = "sub_assign" /\ steps[1].d = from_seconds(Whole(1))
    /\ steps[2].op = "add_assign" /\ steps[2].d = from_seconds(Whole(2))
    /\ out.call = "gregorian"

\* C3: for every threshold T and every raw in [T, T + 1 s), gregorian() of
\* Instant::new(raw) is the day that ends at the insertion, 23:59, and
\* second 60 + (raw - T).
C3_LeapWindowDisplay ==
    \A i \in Entries :
        (/\ made.by = "new" /\ out.call = "gregorian"
         /\ Ge(t, Threshold(i)) /\ Lt(Minus(t, Threshold(i)), US(1000000)))
        => out.val = Civil(DayBefore(i)[1], DayBefore(i)[2], DayBefore(i)[3], 23, 59,
                           60000000 + AsInt(Minus(t, Threshold(i))))

\* C4: the leap-second lookup returns the offset of the first entry whose
\* threshold is <= raw (the new regime's offset at raw = threshold).  The
\* lookup is read off as_unixtime, which returns raw - lookup(raw).
C4_LookupTieBreak ==
    out.call = "as_unixtime"
        => Minus(Minus(t, UNIX_EPOCH), out.val) = FirstAtOrBelow(t)

\* C5: the two-step correction of from_unixtime(u) ends at a fixed point,
\* r = u + lookup(r), and as_unixtime reads u back.
C5_OneReevaluation ==
    made.by = "from_unixtime" =>
        /\ t = Plus(made.arg, microleapseconds(t))
        /\ out.call = "as_unixtime" => out.val = made.arg

C5_Witness ==
    /\ made.by = "from_unixtime"
    /\ microleapseconds(made.arg) # microleapseconds(t)
    /\ out.call = "as_unixtime"
    /\ out.val = made.arg

\* C6: (t + d) - d = t and (t - d) + d = t whenever the sum (the difference)
\* is in the i64 range, for the operator and the in-place forms alike.
C6_ArithmeticInverses ==
    Len(steps) >= 2 =>
        LET p == steps[Len(steps) - 1]
            q == Last(steps)
        IN  /\ (/\ IsAdd(p.op) /\ IsSub(q.op) /\ p.d = q.d
                /\ InI64(Plus(p.t, p.d)) /\ InI64(Plus(p.b, p.d)))
               => (t = p.t /\ b = p.b)
            /\ (/\ IsSub(p.op) /\ IsAdd(q.op) /\ p.d = q.d
                /\ InI64(Minus(p.t, p.d)) /\ InI64(Minus(p.b, p.d)))
               => (t = p.t /\ b = p.b)

C6_Witness ==
    /\ Len(steps) = 2
    /\ steps[1].op = "add" /\ steps[2].op = "sub_assign"
    /\ steps[1].d = steps[2].d /\ steps[1].d # Zero
    /\ InI64(Plus(steps[1].t, steps[1].d))
    /\ t = steps[1].t /\ t # steps[2].t

\* C7: for all Instants a < b and every Duration d >= 0 (all i64 values):
\* a + d >= a, a + d <= b + d, and (b - a).as_microseconds() > 0.
C7_Monotonicity ==
    /\ (steps # <<>> /\ IsAdd(Last(steps).op) /\ Ge(Last(steps).d, Zero)) =>
          /\ Ge(t, Last(steps).t)
          /\ Lt(Last(steps).t, Last(steps).b) => Le(t, b)
    /\ (steps = <<>> /\ out.call = "sub_instant" /\ Lt(t, b)) => Gt(out.val, Zero)

\* C8: UNIX_EPOCH, GPS_EPOCH and MJD_EPOCH are what from_gregorian makes of
\* 1970-01-01, 1980-01-06 and 1858-11-17 at 00:00:00, and gregorian() of each
\* returns that timestamp with second 0.
EpochCivil ==
    <<  <<UNIX_EPOCH, Civil(1970, 1, 1, 0, 0, 0)>>,
        <<GPS_EPOCH, Civil(1980, 1, 6, 0, 0, 0)>>,
        <<MJD_EPOCH, Civil(1858, 11, 17, 0, 0, 0)>> >>

C8_EpochConstants ==
    \A i \in 1..Len(EpochCivil) :
        /\ (made.by = "from_gregorian" /\ made.arg = EpochCivil[i][2])
              => t = EpochCivil[i][1]
        /\ (made.by = "new" /\ made.arg = EpochCivil[i][1] /\ out.call = "gregorian")
              => out.val = EpochCivil[i][2]

C8_Witness ==
    /\ made.by = "new" /\ made.arg = GPS_EPOCH
    /\ out.call = "gregorian"
    /\ out.val = Civil(1980, 1, 6, 0, 0, 0)

\* C9: J2000.gregorian() is 2000-01-01 12:00 and 32.184 s (32184000
\* microseconds exactly: the tolerance of 1e-7 s is below one microsecond).
C9_J2000Scenario ==
    (made.by = "new" /\ made.arg = J2000 /\ out.call = "gregorian")
        => out.val = Civil(2000, 1, 1, 12, 0, 32184000)

C9_Witness ==
    /\ made.by = "new" /\ made.arg = J2000
    /\ out.call = "gregorian"
    /\ out.val.second = 32184000

\* C10: J2000 is the instant 2000-01-01T12:00:00 TT, which is
\* 11:58:55.816 UTC: J2000 = from_gregorian(2000, 1, 1, 11, 58, 55.816).
C10_J2000IsNoonTT ==
    (made.by = "from_gregorian" /\ made.arg = Civil(2000, 1, 1, 11, 58, 55816000))
        => t = J2000

\* The civil day number of (y, m, d), counted from 1858-11-17 = 0, by the
\* proleptic Gregorian rules (400-year eras of 146097 days).
CivilDayNumber(y, m, d) ==
    LET yy == IF m <= 2 THEN y - 1 ELSE y
        era == yy \div 400
        yoe == yy - era * 400
        mp == IF m > 2 THEN m - 3 ELSE m + 9
        doy == (153 * mp + 2) \div 5 + d - 1
        doe == yoe * 365 + yoe \div 4 - yoe \div 100 + doy
    IN  era * 146097 + doe - 719468 + 40587

\* The microseconds from 1858-11-17T00:00:00 to the civil timestamp c, every
\* day taken as 86,400 seconds.
CivilCount(c) ==
    Norm(CivilDayNumber(c.year, c.month, c.day),
         c.hour * 3600 + c.minute * 60, c.second)

\* x and y differ by at most one microsecond.
Within1us(x, y) == Le(Minus(x, y), US(1)) /\ Le(Minus(y, x), US(1))

JdScenario == Civil(2024, 11, 24, 12, 0, 0)

\* C11: from_gregorian(c).as_mjd() is the count of 86,400-second days from
\* 1858-11-17T00:00:00 to c (to the microsecond the seconds of c convert to),
\* as_jd() is as_mjd() + 2400000.5, and 2024-11-24T12:00:00 gives MJD 60638.5
\* and JD 2460639.0 exactly.
C11_JulianDate ==
    made.by = "from_gregorian" =>
        /\ out.call = "as_mjd" =>
               /\ Within1us(out.val, CivilCount(made.arg))
               /\ made.arg = JdScenario => out.val = Norm(60638, 43200, 0)
        /\ out.call = "as_jd" =>
               /\ Within1us(out.val,
                            Plus(CivilCount(made.arg), Norm(2400000, 43200, 0)))
               /\ made.arg = JdScenario => out.val = Days(2460639)

C11_Witness ==
    /\ made.by = "from_gregorian"
    /\ made.arg = JdScenario
    /\ out.call = "as_jd"
    /\ out.val = Days(2460639)

\* The civil counts at which a new regime starts: an insertion ends there.
RegimeStartCounts ==
    {Days(CivilDayNumber(REGIME_START[i][1], REGIME_START[i][2],
                         REGIME_START[i][3])) : i \in Entries}

\* No leap-second insertion lies between the civil counts x and y.
NoInsertionBetween(x, y) ==
    LET lo == IF Le(x, y) THEN x ELSE y
        hi == IF Le(x, y) THEN y ELSE x
    IN  \A r \in RegimeStartCounts : ~(Lt(lo, r) /\ Le(r, hi))

RECURSIVE SumDays(_)
SumDays(seq) ==
    IF seq = <<>> THEN Zero ELSE Plus(seq[1].d, SumDays(Tail(seq)))

\* C12: with no insertion between c1 and c2, from_gregorian(c2) -
\* from_gregorian(c1) is the civil difference c2 - c1 in microseconds; and
\* from_gregorian(c1) plus n whole days, no insertion crossed, reads through
\* gregorian() the time of day of c1, n civil days later.
C12_CivilDifferences ==
    made.by = "from_gregorian_pair" =>
        LET x1 == CivilCount(made.arg)
            x2 == CivilCount(made.arg2)
        IN  /\ (steps = <<>> /\ out.call = "sub_instant"
                    /\ NoInsertionBetween(x1, x2))
                   => out.val = Minus(x2, x1)
            /\ (steps # <<>> /\ out.call = "gregorian"
                    /\ NoInsertionBetween(x1, Plus(x1, SumDays(steps))))
                   => out.val = [made.arg EXCEPT !.year = out.val.year,
                                                 !.month = out.val.month,
                                                 !.day = out.val.day]
                      /\ Days(CivilDayNumber(out.val.year, out.val.month,
                                             out.val.day))
                           = Plus(Days(CivilDayNumber(made.arg.year,
                                     made.arg.month, made.arg.day)),
                                  SumDays(steps))

IsLeapYear(y) == (y % 4 = 0 /\ y % 100 # 0) \/ y % 400 = 0
DaysInMonth(y, m) ==
    IF m = 2 THEN (IF IsLeapYear(y) THEN 29 ELSE 28)
    ELSE IF m \in {4, 6, 9, 11} THEN 30 ELSE 31

\* The fields of c are in their civil ranges (second 60 is a leap second).
ValidCivil(c) ==
    /\ c.month \in 1..12
    /\ c.day >= 1 /\ c.day <= DaysInMonth(c.year, c.month)
    /\ c.hour \in 0..23
    /\ c.minute \in 0..59
    /\ c.second >= 0 /\ c.second < 61000000

\* C13: from_gregorian called with a field outside its civil range reports a
\* range error; it returns no Instant made by normalising the fields.
C13_RangeErrorsReported ==
    (made.by = "from_gregorian" /\ ~ValidCivil(made.arg)) => made.ret = "Err"

\* C14: no operator returns a value reduced modulo 2^64: every value returned
\* by Instant + Duration, Instant - Duration, Instant - Instant and Duration
\* +/- Duration is the exact result (an overflow aborts instead).
C14_NoSilentWrap ==
    /\ steps # <<>> =>
          LET s == Last(steps)
          IN  /\ IsAdd(s.op) => (t = Plus(s.t, s.d) /\ b = Plus(s.b, s.d))
              /\ IsSub(s.op) => (t = Minus(s.t, s.d) /\ b = Minus(s.b, s.d))
    /\ out.call = "sub_instant" => out.val = Minus(b, t)
    /\ out.call = "duration_add" => out.val = Plus(out.self, out.other)
    /\ out.call = "duration_sub" => out.val = Minus(out.self, out.other)

\* C15: from_gps_week_and_sow(week, sow) is GPS_EPOCH plus week * 7 * 86,400 s
\* plus sow s; (0, 0.0) is GPS_EPOCH, and consecutive weeks are
\* 604_800_000_000 microseconds apart.
C15_GpsWeekArithmetic ==
    made.by = "from_gps_week_and_sow" =>
        /\ t = Plus(GPS_EPOCH, Plus(Days(7 * made.week), made.sow))
        /\ (made.week = 0 /\ made.sow = Zero) => t = GPS_EPOCH
        /\ out.call = "sub_instant" => out.val = Days(7)

TableOffsets == {Offset(i) : i \in Entries}
EarliestThreshold == Threshold(Len(LEAP_SECOND_TABLE))

\* C16: for every i64 raw the lookup returns a value: 0 or one of the table's
\* offsets, and 0 for every raw before the earliest (1972-01-01) threshold.
C16_LookupTotal ==
    out.call = "microleapseconds" =>
        /\ out.val \in TableOffsets \cup {Zero}
        /\ out.val2 \in TableOffsets \cup {Zero}
        /\ Lt(t, EarliestThreshold) => out.val = Zero
        /\ Lt(b, EarliestThreshold) => out.val2 = Zero

C16_Witness ==
    /\ out.call = "microleapseconds"
    /\ t = I64_MIN /\ out.val = Zero
    /\ b = I64_MAX /\ out.val2 = Offset(1)

DraftEntries == 1..Len(DRAFT_LEAP_SECOND_TABLE)

\* C17: both tables are strictly decreasing in threshold; for raw1 <= raw2
\* the lookup of raw1 is at most the lookup of raw2, and the two differ only
\* if a threshold lies in raw1..raw2.
C17_LookupMonotonic ==
    /\ \A i \in Entries : i > 1 => Gt(Threshold(i - 1), Threshold(i))
    /\ \A i \in DraftEntries : i > 1 =>
           Gt(DRAFT_LEAP_SECOND_TABLE[i - 1][1], DRAFT_LEAP_SECOND_TABLE[i][1])
    /\ (out.call = "microleapseconds" /\ Le(t, b)) =>
           /\ Le(out.val, out.val2)
           /\ out.val # out.val2 =>
                  \E i \in Entries : Le(t, Threshold(i)) /\ Le(Threshold(i), b)
    /\ (out.call = "leapseconds" /\ Le(t, b)) =>
           /\ out.val <= out.val2
           /\ out.val # out.val2 =>
                  \E i \in DraftEntries :
                      /\ Le(t, DRAFT_LEAP_SECOND_TABLE[i][1])
                      /\ Le(DRAFT_LEAP_SECOND_TABLE[i][1], b)

C17_Witness ==
    /\ out.call = "microleapseconds"
    /\ t = Threshold(1) /\ b = Plus(Threshold(1), US(1))
    /\ out.val = Offset(2) /\ out.val2 = Offset(1)

\* What the call c returns when it runs alone.
Alone(c) ==
    CASE c.op = "microleapseconds" -> microleapseconds(c.arg)
      [] c.op = "as_unixtime" -> as_unixtime(c.arg)
      [] c.op = "from_unixtime" -> from_unixtime(c.arg)
      [] c.op = "add" -> add(c.arg, c.x)

\* C18: whatever the threads and the interleaving of their calls, no call
\* changes the leap-second table, and every call returns what it returns when
\* it runs alone (so repeated lookups of one raw return one offset).
C18_PureUnderConcurrency ==
    /\ table = LEAP_SECOND_TABLE
    /\ \A th \in Threads :
           calls[th].pc = "done" => calls[th].ret = Alone(calls[th])

C18_Witness ==
    /\ calls[1].pc = "done" /\ calls[1].op = "from_unixtime"
    /\ calls[1].ret = from_unixtime(calls[1].arg)
    /\ calls[2].pc = "scan1" /\ calls[2].op = "microleapseconds"
    /\ calls[2].i > 2

Opposite(o) ==
    CASE o = "Less" -> "Greater" [] o = "Greater" -> "Less" [] OTHER -> o

\* C19: partial_cmp of two Instants is never None and is Less, Equal or
\* Greater as the stored counts are; == holds exactly for Equal; and a < b
\* iff (b - a).as_microseconds() > 0.  The same for Durations.
C19_OrderingByCount ==
    /\ out.call \in {"partial_cmp", "duration_partial_cmp"} =>
          /\ out.val \in {"Less", "Equal", "Greater"}
          /\ out.rev = Opposite(out.val)
          /\ out.eq <=> out.val = "Equal"
    /\ out.call = "partial_cmp" =>
          /\ out.val = "Less" <=> Lt(t, b)
          /\ out.val = "Equal" <=> t = b
    /\ out.call = "duration_partial_cmp" =>
          /\ out.val = "Less" <=> Lt(out.self, out.other)
          /\ out.val = "Equal" <=> out.self = out.other
    /\ out.call = "sub_instant" =>
          (partial_cmp(t, b) = "Less" <=> Gt(out.val, Zero))
    /\ out.call = "duration_sub" =>
          (partial_cmp(out.other, out.self) = "Less" <=> Gt(out.val, Zero))

\* n times the factor of the unit, in integers.
ExactScaled(by, n) ==
    CASE by = "from_seconds" -> Scale(Scale(n, 1000), 1000)
      [] by = "from_milliseconds" -> Scale(n, 1000)
      [] by = "from_minutes" -> Scale(Scale(Scale(n, 60), 1000), 1000)
      [] by = "from_hours" -> Scale(Scale(Scale(Scale(n, 60), 60), 1000), 1000)
      [] by = "from_days" ->
             Scale(Scale(Scale(Scale(n, 864), 100), 1000), 1000)
      [] by = "from_microseconds" -> n

\* C20: for a whole number n whose scaled value fits in i64, from_seconds(n),
\* from_milliseconds(n), from_minutes(n), from_hours(n) and from_days(n) store
\* exactly n times 10^6, 10^3, 6 * 10^7, 3.6 * 10^9 and 8.64 * 10^10
\* microseconds; from_microseconds(x).as_microseconds() is x; and the
\* microseconds of a + b are the sum of the microseconds of a and of b.
C20_DurationScaling ==
    /\ (out.call = "duration" /\ InI64(ExactScaled(out.by, out.arg))) =>
           as_microseconds(out.val) = ExactScaled(out.by, out.arg)
    /\ (out.call = "duration_add" /\ InI64(Plus(out.self, out.other))) =>
           out.val = Plus(as_microseconds(out.self), as_microseconds(out.other))

\* C21: gregorian() of every count, the negative ones included, has month in
\* 1..12, day in 1..31, hour in 0..23, minute in 0..59 and second >= 0; second
\* is >= 60 inside a leap-second window [T, T + 1 s) and < 60 everywhere else.
C21_FieldRanges ==
    out.call = "gregorian" =>
        /\ out.val.month \in 1..12
        /\ out.val.day \in 1..31
        /\ out.val.hour \in 0..23
        /\ out.val.minute \in 0..59
        /\ out.val.second >= 0
        /\ out.val.second >= 60000000 =>
               \E i \in Entries : /\ Le(Threshold(i), t)
                                  /\ Lt(t, Plus(Threshold(i), Sec(1)))
        /\ (\A i \in Entries : ~(/\ Le(Threshold(i), t)
                                  /\ Lt(t, Plus(Threshold(i), Sec(1)))))
               => out.val.second < 60000000

----------------------------------------------------------------------------
(* The calendar steps on their own *)

\* Years whose days are encoded and decoded: the century rules (1600 and 2000
\* are leap, 1900 and 2100 are not), the epochs of the module, years on both
\* sides of Julian day 0 (-4713-11-24) and of the algorithm's year offset
\* gc.y, and a year far ahead.
CalYears ==
    {-4800, -4717, -4716, -4715, -4713, -4712, 0, 1600, 1858, 1899, 1900,
     1970, 1972, 1999, 2000, 2024, 2100, 100000}

Date(y, m, d) == [year |-> y, month |-> m, day |-> d]

\* Every day of CalYears
CalDates ==
    {Date(y, m, d) : y \in CalYears, m \in 1..12, d \in 1..31} \
    {c \in [year : CalYears, month : 1..12, day : 1..31] :
        c.day > DaysInMonth(c.year, c.month)}

\* The civil day that follows c
NextDay(c) ==
    IF c.day < DaysInMonth(c.year, c.month)
    THEN Date(c.year, c.month, c.day + 1)
    ELSE IF c.month < 12 THEN Date(c.year, c.month + 1, 1)
    ELSE Date(c.year + 1, 1, 1)

\* The client holds a civil date and the day that follows it.
CalInit ==
    /\ t = UNIX_EPOCH
    /\ b = UNIX_EPOCH
    /\ \E c \in CalDates : made = [by |-> "date", arg |-> c, arg2 |-> NextDay(c)]
    /\ steps = <<>>
    /\ out = None
    /\ checks \in BOOLEAN
    /\ panicked = FALSE
    /\ table = LEAP_SECOND_TABLE
    /\ calls = [th \in Threads |-> Idle]
    /\ mat = NoMatrix

\* The encode step of from_gregorian, on the date and on the day after it
DateToJd ==
    /\ made.by = "date"
    /\ out.call = "none"
    /\ out' = [call |-> "date_to_jd",
               val |-> date_to_jd(made.arg.year, made.arg.month, made.arg.day),
               val2 |-> date_to_jd(made.arg2.year, made.arg2.month,
                                   made.arg2.day)]
    /\ UNCHANGED <<mat, table, calls, t, b, made, steps, checks, panicked>>

\* The decode step of gregorian(), on the day number just encoded
JdToDate ==
    /\ out.call = "date_to_jd"
    /\ out' = [call |-> "jd_to_date", jd |-> out.val, val |-> jd_to_date(out.val)]
    /\ UNCHANGED <<mat, table, calls, t, b, made, steps, checks, panicked>>

CalNext ==
    \/ DateToJd
    \/ JdToDate

CalSpec == CalInit /\ [][CalNext]_vars

\* C22: the day number of the encode step grows by exactly one from each civil
\* day to the next (month ends, year ends and the century rules included), and
\* the decode step gives back the year, month and day that were encoded.
C22_CalendarBijection ==
    /\ out.call = "date_to_jd" => out.val2 = out.val + 1
    /\ out.call = "jd_to_date" => out.val = made.arg

\* C23: for a count t outside every leap-second window, the year, month and
\* day of t.gregorian() are the civil date of day floor(u / 86,400 s) counted
\* from 1970-01-01, with u = t - microleapseconds(t): the same date from
\* 00:00:00 to 23:59:59.999999 of that day, for negative u as well.
C23_DateChangesAtMidnight ==
    (out.call = "gregorian" /\ ~InLeapWindow(t)) =>
        /\ out.val.month \in 1..12
        /\ out.val.day \in 1..DaysInMonth(out.val.year, out.val.month)
        /\ CivilDayNumber(out.val.year, out.val.month, out.val.day)
             = Minus(t, microleapseconds(t))[1] + CivilDayNumber(1970, 1, 1)

\* C24: at every entry of the table, the first one (1972-01-01) included,
\* Instant::new(T).gregorian() is 23:59:60.0 on the day before the regime's
\* first day, Instant::new(T - 1 s).gregorian() is 23:59:59.0 on that same day,
\* and Instant::new(T + 1 s).gregorian() is 00:00:00.0 on the regime's first day.
C24_EveryInsertion ==
    \A i \in Entries :
        (made.by = "new" /\ out.call = "gregorian") =>
            /\ made.arg = Threshold(i) =>
                   out.val = Civil(DayBefore(i)[1], DayBefore(i)[2],
                                   DayBefore(i)[3], 23, 59, 60000000)
            /\ made.arg = Minus(Threshold(i), Sec(1)) =>
                   out.val = Civil(DayBefore(i)[1], DayBefore(i)[2],
                                   DayBefore(i)[3], 23, 59, 59000000)
            /\ made.arg = Plus(Threshold(i), Sec(1)) =>
                   out.val = Civil(REGIME_START[i][1], REGIME_START[i][2],
                                   REGIME_START[i][3], 0, 0, 0)

\* C25 (as stated): from_gps_week_and_sow corrects the sum of its week, its
\* second of week and the epoch for leap seconds as from_unixtime does: with
\* r0 = u + lookup(u), the result is r0 - lookup(u) + lookup(r0).
C25_GpsFollowsUnixPattern ==
    made.by = "from_gps_week_and_sow" =>
        t = Correct(Plus(Plus(Days(made.week * 168), made.sow), GPS_EPOCH))

\* C25 (amended): from_gps_week_and_sow applies no leap-second correction.
\* Week 0 and second of week s give GPS_EPOCH plus exactly s, and in every week
\* the result lies exactly s after the result for second of week 0.
C25_GpsNoLeapCorrection ==
    made.by = "from_gps_week_and_sow" =>
        /\ made.week = 0 => t = Plus(GPS_EPOCH, made.sow)
        /\ Minus(t, from_gps_week_and_sow(made.week, Zero)) = made.sow

C25_Witness ==
    /\ made.by = "from_gps_week_and_sow"
    /\ made.week = 0
    /\ made.sow = Sec(302400)
    /\ t = Sec(315964819 + 302400)

----------------------------------------------------------------------------
(* The constructors that take a UTC reading *)

\* The microseconds from 1970-01-01T00:00:00 to the civil timestamp c, every
\* day taken as 86,400 seconds.
UnixCount(c) == Plus(CivilCount(c), MJD_EPOCH)

\* The UTC magnitudes of the civil timestamps given to from_gregorian, and the
\* ones around the thresholds.
AgreeInputs == UnixInputs \cup {UnixCount(c) : c \in CivilInputs}

\* Instant::now() while the system clock reads `clock` microseconds since
\* 1970-01-01T00:00:00.  A clock before 1970 makes duration_since return Err,
\* and the unwrap of line 293 panics.
Now(clock) ==
    /\ made.by = "none"
    /\ made' = [by |-> "now", arg |-> clock]
    /\ IF Lt(clock, Zero)
       THEN /\ panicked' = TRUE
            /\ UNCHANGED <<t, b>>
       ELSE /\ t' = now(clock)
            /\ b' = t'
            /\ UNCHANGED panicked
    /\ steps' = <<>>
    /\ out' = None
    /\ UNCHANGED <<mat, table, calls, checks>>

AgreeNext ==
    \/ \E u \in AgreeInputs : FromUnixtime(u)
    \/ \E c \in CivilInputs : FromGregorian(c)
    \/ \E clock \in AgreeInputs : Now(clock)
    \/ AsUnixtime

AgreeSpec == Init /\ [][AgreeNext]_vars

\* C26: for a UTC magnitude u (microseconds since 1970-01-01T00:00:00),
\* from_gregorian of the civil fields of u and now() with the clock at u return
\* the count that from_unixtime(u) returns.
C26_ConstructorsAgree ==
    /\ made.by = "from_gregorian" => t = from_unixtime(UnixCount(made.arg))
    /\ (made.by = "now" /\ ~panicked) => t = from_unixtime(made.arg)

----------------------------------------------------------------------------
(* Consecutive UTC magnitudes *)

\* let t = Instant::from_unixtime(u); let b = Instant::from_unixtime(u + 1 us)
FromUnixtimePair(u) ==
    /\ made.by = "none"
    /\ t' = from_unixtime(u)
    /\ b' = from_unixtime(Plus(u, US(1)))
    /\ made' = [by |-> "from_unixtime_pair", arg |-> u]
    /\ steps' = <<>>
    /\ out' = None
    /\ UNCHANGED <<mat, table, calls, checks, panicked>>

ContNext ==
    \/ \E u \in UnixInputs : FromUnixtimePair(u)
    \/ SubInstant

ContSpec == Init /\ [][ContNext]_vars

\* The UTC magnitude of 00:00:00 on the first day of regime i.
Midnight(i) ==
    UnixCount(Civil(REGIME_START[i][1], REGIME_START[i][2], REGIME_START[i][3],
                    0, 0, 0))

\* The insertion of entry i lies between u and u + 1 us (the ends included).
InsertionBetween(u) ==
    \E i \in Entries : Le(u, Midnight(i)) /\ Le(Midnight(i), Plus(u, US(1)))

\* C27: from_unixtime(u + 1 us) - from_unixtime(u) is exactly 1 microsecond, or
\* exactly 1_000_001 microseconds, and the latter only where an insertion lies
\* between u and u + 1 us; this at every entry of the table, the first included.
C27_Continuity ==
    (made.by = "from_unixtime_pair" /\ out.call = "sub_instant") =>
        /\ out.val \in {US(1), US(1000001)}
        /\ out.val = US(1000001) => InsertionBetween(made.arg)
        /\ ~InsertionBetween(made.arg) => out.val = US(1)

----------------------------------------------------------------------------
(* From a count to its civil fields and back *)

\* Counts outside every leap-second window: the ones of RawInputs, and counts
\* with whole and fractional seconds away from the thresholds.
RevInputs ==
    {raw \in RawInputs : ~InLeapWindow(raw)}
    \cup {US(15), US(250000), SecUS(1700000000, 0), SecUS(1700000000, 500000),
          SecUS(946684800 + 43200, 0)}

\* let g = t.gregorian(); Instant::from_gregorian(g.0, g.1, g.2, g.3, g.4, g.5)
\* (outside the windows g.5 is the double `k as f64 * 1.0e-6`, k = out.val.second)
FromGregorianOfGregorian ==
    /\ out.call = "gregorian"
    /\ LET g == out.val
           k == IF g.second < 0 THEN -SecondsRoundTrip(-g.second)
                ELSE SecondsRoundTrip(g.second)
       IN  out' = [call |-> "from_gregorian", arg |-> g,
                   val |-> from_gregorian(g.year, g.month, g.day, g.hour,
                                           g.minute, k)]
    /\ UNCHANGED <<mat, table, calls, t, b, made, steps, checks, panicked>>

RevNext ==
    \/ \E raw \in RevInputs : New(raw)
    \/ Gregorian
    \/ FromGregorianOfGregorian

RevSpec == Init /\ [][RevNext]_vars

\* C28: for a count t outside every leap-second window,
\* from_gregorian(Instant::new(t).gregorian()) is t; so it is for t one second
\* after a threshold.
C28_ReverseRoundTrip ==
    (made.by = "new" /\ out.call = "from_gregorian" /\ ~InLeapWindow(t)) =>
        out.val = t

\* x is a positive whole number of 86,400-second days plus exactly one second.
DaysPlusOneSecond(x) == x[1] > 0 /\ x[2] = 1 /\ x[3] = 0

\* C29: in the table of time/instant.rs and in the table of the draft, each
\* entry's offset is exactly one second above the next (older) entry's, and
\* its threshold is a whole number of 86,400-second days plus exactly one
\* second above the next entry's.
C29_TableStructure ==
    /\ \A i \in 2..Len(table) :
           /\ Minus(table[i - 1][2], table[i][2]) = Sec(1)
           /\ DaysPlusOneSecond(Minus(table[i - 1][1], table[i][1]))
    /\ \A i \in DraftEntries : i > 1 =>
           /\ DRAFT_LEAP_SECOND_TABLE[i - 1][2] = DRAFT_LEAP_SECOND_TABLE[i][2] + 1
           /\ DaysPlusOneSecond(Minus(DRAFT_LEAP_SECOND_TABLE[i - 1][1],
                                      DRAFT_LEAP_SECOND_TABLE[i][1]))

----------------------------------------------------------------------------
(* Element access of a matrix *)

\* Shapes <<M, N>>: square, wide, tall, a row and a column.
Shapes == {<<2, 2>>, <<2, 3>>, <<3, 2>>, <<1, 3>>, <<3, 1>>}
\* Values written by set and by the index expression.
SetValues == {-1, -2}

\* The row-major array whose element (i, j) is 10 * i + j + 1: no two alike.
Numbered(M, N) == [i \in 0..(M - 1) |-> [j \in 0..(N - 1) |-> 10 * i + j + 1]]

\* The client holds a matrix: Matrix::<M, N>::zeros() or
\* Matrix::<M, N>::from_row_major_array(...).
MatInit ==
    /\ t = UNIX_EPOCH
    /\ b = UNIX_EPOCH
    /\ made = [by |-> "none"]
    /\ steps = <<>>
    /\ out = None
    /\ checks \in BOOLEAN
    /\ panicked = FALSE
    /\ table = LEAP_SECOND_TABLE
    /\ calls = [th \in Threads |-> Idle]
    /\ \E sh \in Shapes :
           mat \in {zeros(sh[1], sh[2]),
                    from_row_major_array(sh[1], sh[2], Numbered(sh[1], sh[2]))}

\* m.get(row, col) for row < M and col < N
Get(row, col) ==
    /\ ~panicked
    /\ row < mat.M /\ col < mat.N
    /\ IF InArray(mat, row, col)
       THEN /\ out' = [call |-> "get", row |-> row, col |-> col,
                       val |-> get(mat, row, col)]
            /\ UNCHANGED panicked
       ELSE /\ out' = [call |-> "get", row |-> row, col |-> col]
            /\ panicked' = TRUE
    /\ UNCHANGED <<t, b, made, steps, checks, table, calls, mat>>

\* m.set(row, col, value) for row < M and col < N
Set(row, col, value) ==
    /\ ~panicked
    /\ row < mat.M /\ col < mat.N
    /\ out' = [call |-> "set", row |-> row, col |-> col, val |-> value]
    /\ IF InArray(mat, row, col)
       THEN /\ mat' = set(mat, row, col, value)
            /\ UNCHANGED panicked
       ELSE /\ panicked' = TRUE
            /\ UNCHANGED mat
    /\ UNCHANGED <<t, b, made, steps, checks, table, calls>>

\* m[(row, col)] for row < M and col < N
Index(row, col) ==
    /\ ~panicked
    /\ row < mat.M /\ col < mat.N
    /\ out' = [call |-> "index", row |-> row, col |-> col,
               val |-> index(mat, row, col)]
    /\ UNCHANGED <<t, b, made, steps, checks, panicked, table, calls, mat>>

\* m[(row, col)] = value for row < M and col < N
IndexMut(row, col, value) ==
    /\ ~panicked
    /\ row < mat.M /\ col < mat.N
    /\ out' = [call |-> "index_mut", row |-> row, col |-> col, val |-> value]
    /\ mat' = index_mut(mat, row, col, value)
    /\ UNCHANGED <<t, b, made, steps, checks, panicked, table, calls>>

MatNext ==
    \/ \E row, col \in 0..2 : Get(row, col)
    \/ \E row, col \in 0..2, value \in SetValues : Set(row, col, value)
    \/ \E row, col \in 0..2 : Index(row, col)
    \/ \E row, col \in 0..2, value \in SetValues : IndexMut(row, col, value)

MatSpec == MatInit /\ [][MatNext]_vars

\* C30: for a Matrix<M, N>, square or not, and row < M, col < N: get(row, col)
\* returns the element m[(row, col)]; after set(row, col, v) the element
\* m[(row, col)] is v; and neither get nor set panics on an index out of bounds.
C30_ElementAccess ==
    /\ out.call \in {"get", "set"} => ~panicked
    /\ (out.call = "get" /\ ~panicked) =>
           out.val = index(mat, out.row, out.col)
    /\ (out.call = "set" /\ ~panicked) =>
           index(mat, out.row, out.col) = out.val

====
